---- MODULE Spec2Model ----
(***************************************************************************)
(* Multithreaded run-length file compressor (Task2.cpp).                   *)
(*                                                                         *)
(* The model follows one session of the menu loop of main(): compressFile  *)
(* and decompressFile are fork-join pipelines. The main thread partitions  *)
(* the buffer, starts one worker thread per chunk, joins them in index     *)
(* order, merges the per-chunk slots and writes the result. Worker threads *)
(* are interleaved freely with the main thread between start and join.     *)
(*                                                                         *)
(* A char is modelled as a signed 8-bit value (-128..127); the casts       *)
(* static_cast<char> and static_cast<unsigned char> are ToChar / ToUChar.  *)
(* Buffer offsets are 0-based as in the source; sequences are 1-based, so  *)
(* data[i] of the source is data[i + 1] here.                              *)
(***************************************************************************)
EXTENDS Integers, Sequences, FiniteSets

VARIABLES
  op,          \* "none" | "compress" | "decompress": the menu choice being run
  pc,          \* position of the main thread
  data,        \* the buffer returned by readFile
  input,       \* history: the buffer as readFile returned it
  numThreads,  \* numThreads of the running operation (0 while none runs)
  i,           \* loop index of the launch loop, then of the join loop
  tpc,         \* per worker thread: "unspawned" | "running" | "finished" | "joined"
  startOf,     \* per worker thread: the start offset captured by its lambda
  endOf,       \* per worker thread: the end offset captured by its lambda
  chunks,      \* compressedChunks / decompressedChunks: one output slot per thread
  merged,      \* compressed (compressFile) / decompressed (decompressFile)
  outputData,  \* the bytes handed to writeFile
  written,     \* writeFile succeeded for this operation
  cerr,        \* messages written to std::cerr by this operation, in order
  disk,        \* the container the session's compressFile wrote (<<>>: none yet)
  orig,        \* history: the raw buffer that container was made from
  fromDisk,    \* the running decompressFile reads the container in disk
  writes,      \* history: <<thread, slot>> for every assignment to an output slot
  finishOrder  \* history: worker threads in the order they completed

vars == <<op, pc, data, input, numThreads, i, tpc, startOf, endOf, chunks, merged,
          outputData, written, cerr, disk, orig, fromDisk, writes, finishOrder>>

-----------------------------------------------------------------------------
(* Bounds of the explored inputs. *)

MaxLen == 6        \* longest short raw buffer
MaxPayload == 4    \* longest payload of an externally supplied container
MaxThreads == 4    \* largest value of std::thread::hardware_concurrency()
LongLen == 300     \* length of the long single-run buffer

(* Program constants. *)

MaxRun == 255      \* the run cap of compressRLEChunk
HeaderC == 67      \* 'C'
HeaderU == 85      \* 'U'

ErrEmptyCompress == "Failed to read input file or file is empty."
ErrEmptyDecompress == "Input file is empty or failed to read."
ErrChunkSize == "Invalid compressed chunk size"
ErrHeader == "Unknown file format header."
ErrWriteCompressed == "Failed to write compressed file."
ErrWriteDecompressed == "Failed to write decompressed file."

-----------------------------------------------------------------------------
(* Helpers. *)

Rep(v, n) == [j \in 1..n |-> v]

\* static_cast<char>(n): the low 8 bits, read as a signed char
ToChar(n) == IF n % 256 > 127 THEN (n % 256) - 256 ELSE n % 256

\* static_cast<unsigned char>(c)
ToUChar(c) == c % 256

\* All sequences over S of length 0..n
RECURSIVE SeqsUpTo(_, _)
SeqsUpTo(S, n) ==
  IF n = 0 THEN {<<>>}
  ELSE LET shorter == SeqsUpTo(S, n - 1)
       IN shorter \cup {Append(s, x) : s \in {t \in shorter : Len(t) = n - 1}, x \in S}

\* chunks[0] \o chunks[1] \o ... in the order given by the sequence of indices
RECURSIVE ConcatIn(_, _)
ConcatIn(slots, order) ==
  IF order = <<>> THEN <<>>
  ELSE slots[Head(order)] \o ConcatIn(slots, Tail(order))

-----------------------------------------------------------------------------
(* compressRLEChunk, lines 11-24. *)

\* the inner loop's cap on count (line 17: count < 255)
CountBelowCapOffByOne(count) == count <= MaxRun

CountBelowCap(count) == count < MaxRun

\* the condition of the inner while loop (line 17)
CountContinues(d, at, end, c, count) ==
  at + count < end /\ d[at + count + 1] = c /\ CountBelowCap(count)

\* the inner while loop of lines 16-18: count starts at 1 and is incremented
\* while the condition holds, so it ends at the first count where it fails
\* (at the latest at count = end - at)
CountRun(d, at, end, c) ==
  CHOOSE count \in 1..(end - at) :
    /\ ~CountContinues(d, at, end, c, count)
    /\ \A below \in 1..(count - 1) : CountContinues(d, at, end, c, below)

\* the outer while loop of lines 14-22
RECURSIVE RLELoop(_, _, _, _)
RLELoop(d, at, end, compressed) ==
  IF at < end
  THEN LET c == d[at + 1]
           count == CountRun(d, at, end, c)
       IN RLELoop(d, at + count, end, compressed \o <<c, ToChar(count)>>)
  ELSE compressed

compressRLEChunk(d, start, end) == RLELoop(d, start, end, <<>>)

-----------------------------------------------------------------------------
(* decompressRLEChunk, lines 27-40. *)

\* line 29: the chunk is rejected (empty result, message on cerr)
ChunkSizeInvalid(start, end) == (end - start) % 2 # 0

\* the for loop of lines 34-38
RECURSIVE ExpandLoop(_, _, _, _)
ExpandLoop(d, at, end, decompressed) ==
  IF at < end
  THEN LET c == d[at + 1]
           count == ToUChar(d[at + 2])
       IN ExpandLoop(d, at + 2, end, decompressed \o Rep(c, count))
  ELSE decompressed

decompressRLEChunk(d, start, end) ==
  IF ChunkSizeInvalid(start, end) THEN <<>> ELSE ExpandLoop(d, start, end, <<>>)

-----------------------------------------------------------------------------
(* The inputs the environment supplies. *)

RawBytes == {65, 66}                 \* 'A', 'B'
LongByte == ToChar(171)              \* 0xAB
PayloadBytes == {0, 2, 65}           \* as a count: 0, 2, 65; as a value: NUL, STX, 'A'
OtherHeaders == {88}                 \* 'X': neither 'C' nor 'U'

\* files offered to compressFile
RawInputs ==
  SeqsUpTo(RawBytes, MaxLen)
    \cup {Rep(LongByte, n) : n \in {MaxRun, MaxRun + 1, LongLen, 2 * MaxRun + 1}}
    \cup {Rep(LongByte, MaxRun + 1) \o <<65>>}

\* files offered to decompressFile that no compressFile of the session wrote
ContainerInputs ==
  {<<>>}
    \cup {<<h>> \o p : h \in {HeaderC, HeaderU} \cup OtherHeaders,
                       p \in SeqsUpTo(PayloadBytes, MaxPayload)}
    \cup {<<HeaderC, LongByte, ToChar(MaxRun), LongByte, 45>>}

\* values std::thread::hardware_concurrency() may return (0: not computable)
Concurrency == 0..MaxThreads

-----------------------------------------------------------------------------
(* The partitioner and the dispatcher's pieces. *)

\* lines 101-102 and 170-171
HardwareThreads(hc) == IF hc = 0 THEN 2 ELSE hc

\* line 107 (chunkSize) and line 174 (pairsPerThread)
ChunkSize(total, W) == total \div W

\* line 111 (start) and line 181 (startPair)
ChunkStart(t, size) == t * size

ChunkEndNoRemainder(t, W, size, total) == ChunkStart(t, size) + size

\* line 112 (end) and line 182 (endPair)
ChunkEnd(t, W, size, total) ==
  IF t = W - 1 THEN total ELSE ChunkStart(t, size) + size

\* line 168 and line 173
RawSize(d) == Len(d) - 1
PairCount(d) == RawSize(d) \div 2

\* the slot a worker assigns: compressedChunks[i] / decompressedChunks[i]
SlotOf(t) == t

JoinReadyNoWait(t) == tpc[t] \in {"running", "finished"}

\* t.join() returns once thread t has run to completion
JoinReady(t) == tpc[t] = "finished"

MergeOrderByCompletion == finishOrder

\* the range-for of lines 124 and 197 visits the slots by index
MergeOrder == [k \in 1..numThreads |-> k - 1]

NotEffectiveStrict(compressed, raw) == Len(compressed) > Len(raw)

\* line 134
NotEffective(compressed, raw) == Len(compressed) >= Len(raw)

HeaderKindLenient(h) == IF h = HeaderC THEN "C" ELSE "U"

\* lines 166, 202, 206
HeaderKind(h) ==
  IF h = HeaderC THEN "C" ELSE IF h = HeaderU THEN "U" ELSE "unknown"

Threads == 0..(numThreads - 1)

NoThreads == [t \in {} |-> 0]

-----------------------------------------------------------------------------
(* State. *)

Init ==
  /\ op = "none"
  /\ pc = "menu"
  /\ data = <<>>
  /\ input = <<>>
  /\ numThreads = 0
  /\ i = 0
  /\ tpc = NoThreads
  /\ startOf = NoThreads
  /\ endOf = NoThreads
  /\ chunks = NoThreads
  /\ merged = <<>>
  /\ outputData = <<>>
  /\ written = FALSE
  /\ cerr = <<>>
  /\ disk = <<>>
  /\ orig = <<>>
  /\ fromDisk = FALSE
  /\ writes = <<>>
  /\ finishOrder = <<>>

\* the vectors of lines 105-106 / 176-177, before any thread is launched
Fork(W) ==
  /\ numThreads' = W
  /\ i' = 0
  /\ tpc' = [t \in 0..(W - 1) |-> "unspawned"]
  /\ startOf' = [t \in 0..(W - 1) |-> 0]
  /\ endOf' = [t \in 0..(W - 1) |-> 0]
  /\ chunks' = [t \in 0..(W - 1) |-> <<>>]

-----------------------------------------------------------------------------
(* compressFile, lines 89-149. *)

\* lines 94-108: read the file, reject an empty buffer, size the fan-out
CompressBegin(B, hc) ==
  /\ op' = "compress"
  /\ data' = B
  /\ input' = B
  /\ IF B = <<>>
       THEN /\ cerr' = Append(cerr, ErrEmptyCompress)
            /\ pc' = "failed"
            /\ UNCHANGED <<numThreads, i, tpc, startOf, endOf, chunks>>
       ELSE /\ Fork(HardwareThreads(hc))
            /\ pc' = "spawn"
            /\ UNCHANGED cerr
  /\ UNCHANGED <<merged, outputData, written, disk, orig, fromDisk, writes, finishOrder>>

\* lines 110-117: one iteration of the launch loop
LaunchCompress ==
  /\ pc = "spawn"
  /\ op = "compress"
  /\ LET chunkSize == ChunkSize(Len(data), numThreads)
     IN /\ startOf' = [startOf EXCEPT ![i] = ChunkStart(i, chunkSize)]
        /\ endOf' = [endOf EXCEPT ![i] = ChunkEnd(i, numThreads, chunkSize, Len(data))]
  /\ tpc' = [tpc EXCEPT ![i] = "running"]
  /\ IF i + 1 = numThreads
       THEN pc' = "join" /\ i' = 0
       ELSE pc' = "spawn" /\ i' = i + 1
  /\ UNCHANGED <<op, data, input, numThreads, chunks, merged, outputData, written,
                 cerr, disk, orig, fromDisk, writes, finishOrder>>

\* lines 114-116: the body of worker thread t
CompressWorker(t) ==
  /\ op = "compress"
  /\ tpc[t] = "running"
  /\ chunks' = [chunks EXCEPT ![SlotOf(t)] = compressRLEChunk(data, startOf[t], endOf[t])]
  /\ writes' = Append(writes, <<t, SlotOf(t)>>)
  /\ finishOrder' = Append(finishOrder, t)
  /\ tpc' = [tpc EXCEPT ![t] = "finished"]
  /\ UNCHANGED <<op, pc, data, input, numThreads, i, startOf, endOf, merged,
                 outputData, written, cerr, disk, orig, fromDisk>>

\* lines 120 and 194: one iteration of the join loop
Join ==
  /\ pc = "join"
  /\ JoinReady(i)
  /\ tpc' = [tpc EXCEPT ![i] = "joined"]
  /\ IF i + 1 = numThreads
       THEN pc' = "merge" /\ i' = 0
       ELSE pc' = "join" /\ i' = i + 1
  /\ UNCHANGED <<op, data, input, numThreads, startOf, endOf, chunks, merged,
                 outputData, written, cerr, disk, orig, fromDisk, writes, finishOrder>>

\* lines 123-125 and 197-198: concatenate the slots
Merge ==
  /\ pc = "merge"
  /\ merged' = ConcatIn(chunks, MergeOrder)
  /\ pc' = "store"
  /\ UNCHANGED <<op, data, input, numThreads, i, tpc, startOf, endOf, chunks,
                 outputData, written, cerr, disk, orig, fromDisk, writes, finishOrder>>

\* lines 133-148: header, payload and writeFile (ok: whether the file opened)
StoreCompressed(ok) ==
  /\ pc = "store"
  /\ op = "compress"
  /\ outputData' = IF NotEffective(merged, data)
                     THEN <<HeaderU>> \o data
                     ELSE <<HeaderC>> \o merged
  /\ IF ok
       THEN /\ written' = TRUE
            /\ disk' = outputData'
            /\ orig' = data
            /\ pc' = "done"
            /\ UNCHANGED cerr
       ELSE /\ cerr' = Append(cerr, ErrWriteCompressed)
            /\ pc' = "failed"
            /\ UNCHANGED <<written, disk, orig>>
  /\ UNCHANGED <<op, data, input, numThreads, i, tpc, startOf, endOf, chunks, merged,
                 fromDisk, writes, finishOrder>>

-----------------------------------------------------------------------------
\* choice "2" of the menu, on any file and any hardware concurrency.
\* The session compresses one file (disk = <<>> until it has).
StartCompress ==
  /\ pc = "menu"
  /\ disk = <<>>
  /\ \E B \in RawInputs, hc \in Concurrency : CompressBegin(B, hc)

-----------------------------------------------------------------------------
(* decompressFile, lines 152-222. *)

\* lines 157-177 and 202-209: read the file, dispatch on the header
DecompressBegin(F, hc) ==
  /\ op' = "decompress"
  /\ data' = F
  /\ input' = F
  /\ IF Len(F) < 1
       THEN /\ cerr' = Append(cerr, ErrEmptyDecompress)
            /\ pc' = "failed"
            /\ UNCHANGED <<numThreads, i, tpc, startOf, endOf, chunks, merged>>
       ELSE IF HeaderKind(F[1]) = "C"
       THEN /\ Fork(HardwareThreads(hc))
            /\ pc' = "spawn"
            /\ UNCHANGED <<cerr, merged>>
       ELSE IF HeaderKind(F[1]) = "U"
       THEN /\ merged' = Tail(F)
            /\ pc' = "store"
            /\ UNCHANGED <<cerr, numThreads, i, tpc, startOf, endOf, chunks>>
       ELSE /\ cerr' = Append(cerr, ErrHeader)
            /\ pc' = "failed"
            /\ UNCHANGED <<numThreads, i, tpc, startOf, endOf, chunks, merged>>
  /\ UNCHANGED <<outputData, written, disk, orig, writes, finishOrder>>

\* decompressFile on a file that came from elsewhere
StartDecompressExternal ==
  /\ pc = "menu"
  /\ disk = <<>>
  /\ fromDisk' = FALSE
  /\ \E F \in ContainerInputs, hc \in Concurrency : DecompressBegin(F, hc)

\* decompressFile on the container the session's compressFile wrote
StartDecompressDisk ==
  /\ pc = "menu"
  /\ disk # <<>>
  /\ fromDisk' = TRUE
  /\ \E hc \in Concurrency : DecompressBegin(disk, hc)

\* lines 180-191: one iteration of the launch loop
LaunchDecompress ==
  /\ pc = "spawn"
  /\ op = "decompress"
  /\ LET pairCount == PairCount(data)
         pairsPerThread == ChunkSize(pairCount, numThreads)
         startPair == ChunkStart(i, pairsPerThread)
         endPair == ChunkEnd(i, numThreads, pairsPerThread, pairCount)
     IN /\ startOf' = [startOf EXCEPT ![i] = startPair * 2]
        /\ endOf' = [endOf EXCEPT ![i] = endPair * 2]
  /\ tpc' = [tpc EXCEPT ![i] = "running"]
  /\ IF i + 1 = numThreads
       THEN pc' = "join" /\ i' = 0
       ELSE pc' = "spawn" /\ i' = i + 1
  /\ UNCHANGED <<op, data, input, numThreads, chunks, merged, outputData, written,
                 cerr, disk, orig, fromDisk, writes, finishOrder>>

\* lines 187-190: the body of worker thread t; rawData is data without its header
DecompressWorker(t) ==
  /\ op = "decompress"
  /\ tpc[t] = "running"
  /\ LET rawData == Tail(data)
         slice == SubSeq(rawData, startOf[t] + 1, endOf[t])
         size == endOf[t] - startOf[t]
     IN /\ chunks' = [chunks EXCEPT ![SlotOf(t)] = decompressRLEChunk(slice, 0, size)]
        /\ cerr' = IF ChunkSizeInvalid(0, size) THEN Append(cerr, ErrChunkSize) ELSE cerr
  /\ writes' = Append(writes, <<t, SlotOf(t)>>)
  /\ finishOrder' = Append(finishOrder, t)
  /\ tpc' = [tpc EXCEPT ![t] = "finished"]
  /\ UNCHANGED <<op, pc, data, input, numThreads, i, startOf, endOf, merged,
                 outputData, written, disk, orig, fromDisk>>

\* lines 211-221: writeFile of the decompressed buffer (ok: whether the file opened)
StoreDecompressed(ok) ==
  /\ pc = "store"
  /\ op = "decompress"
  /\ outputData' = merged
  /\ IF ok
       THEN written' = TRUE /\ pc' = "done" /\ UNCHANGED cerr
       ELSE /\ cerr' = Append(cerr, ErrWriteDecompressed)
            /\ pc' = "failed"
            /\ UNCHANGED written
  /\ UNCHANGED <<op, data, input, numThreads, i, tpc, startOf, endOf, chunks, merged,
                 disk, orig, fromDisk, writes, finishOrder>>

-----------------------------------------------------------------------------
(* main, lines 225-254. *)

\* the operation returned: back to the menu, its locals gone
ReturnToMenu ==
  /\ pc \in {"done", "failed"}
  /\ op' = "none"
  /\ pc' = "menu"
  /\ data' = <<>>
  /\ input' = <<>>
  /\ numThreads' = 0
  /\ i' = 0
  /\ tpc' = NoThreads
  /\ startOf' = NoThreads
  /\ endOf' = NoThreads
  /\ chunks' = NoThreads
  /\ merged' = <<>>
  /\ outputData' = <<>>
  /\ written' = FALSE
  /\ cerr' = <<>>
  /\ fromDisk' = FALSE
  /\ writes' = <<>>
  /\ finishOrder' = <<>>
  /\ UNCHANGED <<disk, orig>>

\* choice "4"
Exit ==
  /\ pc = "menu"
  /\ pc' = "exit"
  /\ UNCHANGED <<op, data, input, numThreads, i, tpc, startOf, endOf, chunks, merged,
                 outputData, written, cerr, disk, orig, fromDisk, writes, finishOrder>>

Next ==
  \/ StartCompress
  \/ LaunchCompress
  \/ \E t \in Threads : CompressWorker(t)
  \/ Join
  \/ Merge
  \/ \E ok \in BOOLEAN : StoreCompressed(ok)
  \/ StartDecompressExternal
  \/ StartDecompressDisk
  \/ LaunchDecompress
  \/ \E t \in Threads : DecompressWorker(t)
  \/ \E ok \in BOOLEAN : StoreDecompressed(ok)
  \/ ReturnToMenu
  \/ Exit

Spec == Init /\ [][Next]_vars

-----------------------------------------------------------------------------
(* Reference definitions used by the properties. *)

Terminal == pc \in {"done", "failed"}

\* the operation forked worker threads (compressFile on a non-empty buffer,
\* decompressFile on a 'C' container)
Forked == numThreads > 0

WriteFailed ==
  \E k \in 1..Len(cerr) : cerr[k] \in {ErrWriteCompressed, ErrWriteDecompressed}

\* chunk t of W processed on its own, from the buffer alone
SequentialChunk(kind, d, W, t) ==
  IF kind = "compress"
    THEN LET size == Len(d) \div W
             s == t * size
             e == IF t = W - 1 THEN Len(d) ELSE s + size
         IN compressRLEChunk(d, s, e)
    ELSE LET pairs == (Len(d) - 1) \div 2
             size == pairs \div W
             s == 2 * (t * size)
             e == IF t = W - 1 THEN 2 * pairs ELSE s + 2 * size
         IN decompressRLEChunk(SubSeq(Tail(d), s + 1, e), 0, e - s)

\* the chunks processed one after the other on one thread, in index order
RECURSIVE SequentialFrom(_, _, _, _)
SequentialFrom(kind, d, W, t) ==
  IF t = W THEN <<>>
  ELSE SequentialChunk(kind, d, W, t) \o SequentialFrom(kind, d, W, t + 1)

Sequential(kind, d, W) == SequentialFrom(kind, d, W, 0)

InIndexOrder(order) == \A k \in 1..Len(order) : order[k] = k - 1

\* the pairs of an encoded chunk
PairsOf(enc) == Len(enc) \div 2
ValueAt(enc, k) == enc[2 * k - 1]
CountAt(enc, k) == ToUChar(enc[2 * k])

\* raw offset at which pair k of an encoded chunk starting at offset s begins
RECURSIVE PairPos(_, _, _)
PairPos(enc, s, k) ==
  IF k = 1 THEN s ELSE PairPos(enc, s, k - 1) + CountAt(enc, k - 1)

\* enc is the greedy, capped, chunk-local run-length code of d[s, e)
WellFormedRuns(d, s, e, enc) ==
  /\ Len(enc) % 2 = 0
  /\ \A k \in 1..PairsOf(enc) :
       LET pos == PairPos(enc, s, k)
           cnt == CountAt(enc, k)
       IN /\ cnt \in 1..255
          /\ pos + cnt <= e
          /\ \A j \in pos..(pos + cnt - 1) : d[j + 1] = ValueAt(enc, k)
          /\ \/ cnt = 255
             \/ pos + cnt = e
             \/ d[pos + cnt + 1] # ValueAt(enc, k)
  /\ PairPos(enc, s, PairsOf(enc) + 1) = e

-----------------------------------------------------------------------------
(* Properties. *)

\* C1: round trip. Every compressFile request on a buffer B, with any worker
\* count, ends having written a container (unless writeFile itself failed), and
\* decompressFile on that container, with any worker count, ends having
\* produced exactly B.
C1_RoundTrip ==
  /\ (op = "compress" /\ Terminal /\ ~WriteFailed)
       => (pc = "done" /\ written /\ disk = outputData /\ orig = input)
  /\ (op = "decompress" /\ fromDisk /\ Terminal /\ ~WriteFailed)
       => (pc = "done" /\ written /\ outputData = orig)

\* The round trip on the buffers compressFile accepts: the same statement with
\* the empty buffer left to C5.
RoundTripNonEmpty ==
  /\ (op = "compress" /\ input # <<>> /\ Terminal /\ ~WriteFailed)
       => (pc = "done" /\ written /\ disk = outputData /\ orig = input)
  /\ (op = "decompress" /\ fromDisk /\ Terminal /\ ~WriteFailed)
       => (pc = "done" /\ written /\ outputData = orig)

\* C2: dispatcher determinism. Whatever the interleaving and completion order
\* of the workers, the merged buffer of both pipelines is the concatenation of
\* the per-chunk results in index order 0..W-1, as one thread would produce it.
C2_Deterministic ==
  (Forked /\ pc \in {"store", "done", "failed"})
    => merged = Sequential(op, input, numThreads)

\* C2 witness: a merge after the workers completed out of index order, with
\* slots that differ.
C2_Witness ==
  /\ Forked
  /\ pc = "store"
  /\ numThreads >= 2
  /\ ~InIndexOrder(finishOrder)
  /\ chunks[0] # chunks[1]

\* C3: malformed input rejection. decompressFile on a 'C' container with an
\* odd-length payload fails; it never hands a decompressed buffer to writeFile.
C3_OddPayloadRejected ==
  (/\ op = "decompress"
   /\ Len(input) >= 1
   /\ input[1] = HeaderC
   /\ (Len(input) - 1) % 2 = 1
   /\ pc \in {"store", "done", "failed"})
    => (pc = "failed" /\ ~written /\ outputData = <<>>)

\* C4: fallback policy. The container compressFile builds is 'C' followed by
\* the concatenated encoded chunks exactly when that encoding is shorter than
\* the raw buffer, and 'U' followed by the raw buffer otherwise; a buffer that
\* single-chunk RLE would not shrink is stored 'U' for every worker count.
C4_Fallback ==
  (op = "compress" /\ Terminal /\ outputData # <<>>)
    => LET encoded == Sequential("compress", input, numThreads)
           single == compressRLEChunk(input, 0, Len(input))
       IN /\ (outputData[1] = HeaderC) <=> (Len(encoded) < Len(input))
          /\ Len(encoded) < Len(input) => outputData = <<HeaderC>> \o encoded
          /\ Len(encoded) >= Len(input) => outputData = <<HeaderU>> \o input
          /\ Len(single) >= Len(input) => outputData = <<HeaderU>> \o input

\* C4 witness: a buffer whose encoding is exactly as long as the buffer, stored
\* 'U' by several workers.
C4_Witness ==
  /\ op = "compress"
  /\ pc = "done"
  /\ numThreads >= 2
  /\ Len(input) > 0
  /\ Len(merged) = Len(input)
  /\ outputData = <<HeaderU>> \o input

\* C5: empty input. compressFile on a zero-length buffer is not an error and
\* writes the 1-byte container 'U'; decompressFile on that container produces a
\* zero-length buffer.
C5_EmptyInput ==
  /\ (op = "compress" /\ input = <<>> /\ Terminal /\ ~WriteFailed)
       => (pc = "done" /\ written /\ outputData = <<HeaderU>> /\ cerr = <<>>)
  /\ (op = "decompress" /\ input = <<HeaderU>> /\ Terminal /\ ~WriteFailed)
       => (pc = "done" /\ written /\ outputData = <<>>)

\* C6: header rejection. decompressFile on a container whose first byte is
\* neither 'C' nor 'U' reports the unknown header and returns: no worker is
\* started, no decompressed buffer is produced, nothing is written.
C6_HeaderRejected ==
  (op = "decompress" /\ Len(input) >= 1 /\ input[1] \notin {HeaderC, HeaderU})
    => /\ pc = "failed"
       /\ cerr = <<ErrHeader>>
       /\ ~Forked
       /\ tpc = NoThreads
       /\ writes = <<>>
       /\ merged = <<>>
       /\ outputData = <<>>
       /\ ~written

\* C6 witness: an unknown header in front of a non-empty payload, rejected.
C6_Witness ==
  /\ op = "decompress"
  /\ Len(input) > 1
  /\ input[1] \in OtherHeaders
  /\ pc = "failed"

\* C7: count range on decode. decompressFile on a 'C' container holding a pair
\* whose count byte is 0 fails with a format error; it never hands a
\* decompressed buffer to writeFile.
C7_ZeroCountRejected ==
  (/\ op = "decompress"
   /\ Len(input) >= 1
   /\ input[1] = HeaderC
   /\ (Len(input) - 1) % 2 = 0
   /\ \E k \in 1..((Len(input) - 1) \div 2) : ToUChar(input[2 * k + 1]) = 0
   /\ pc \in {"store", "done", "failed"})
    => (pc = "failed" /\ ~written /\ outputData = <<>>)

\* C8: partitioner. Once all W workers are launched over L units (raw bytes
\* when encoding, pairs when decoding, doubled to byte offsets), the ranges
\* start at 0, are contiguous, end at L, have size floor(L/W) except the last,
\* which has floor(L/W) + (L mod W), and every decode range is 2-byte aligned.
C8_Partition ==
  (Forked /\ pc \in {"join", "merge", "store", "done"})
    => LET W == numThreads
           scale == IF op = "compress" THEN 1 ELSE 2
           L == IF op = "compress" THEN Len(input) ELSE (Len(input) - 1) \div 2
       IN /\ startOf[0] = 0
          /\ \A t \in 0..(W - 2) : endOf[t] = startOf[t + 1]
          /\ endOf[W - 1] = scale * L
          /\ \A t \in 0..(W - 2) : endOf[t] - startOf[t] = scale * (L \div W)
          /\ endOf[W - 1] - startOf[W - 1] = scale * ((L \div W) + (L % W))
          /\ \A t \in 0..(W - 1) : startOf[t] <= endOf[t]
          /\ op = "decompress" =>
               \A t \in 0..(W - 1) :
                 /\ startOf[t] % 2 = 0
                 /\ (endOf[t] - startOf[t]) % 2 = 0

\* C8 witness: a decode fan-out whose pair count does not divide evenly.
C8_Witness ==
  /\ op = "decompress"
  /\ Forked
  /\ pc = "join"
  /\ numThreads >= 2
  /\ ((Len(input) - 1) \div 2) % numThreads # 0

\* C9: run cap and chunk-local runs. What a compress worker leaves in its slot
\* is an even-length list of (value, count) pairs, every count in 1..255 as an
\* unsigned byte, the counts summing to end - start, each pair the longest run
\* from its position that stays in the range and is at most 255 long; one chunk
\* of LongLen equal bytes is (v, 255), (v, LongLen - 255).
C9_RunCap ==
  op = "compress" =>
    /\ \A t \in Threads :
         tpc[t] \in {"finished", "joined"}
           => WellFormedRuns(input, startOf[t], endOf[t], chunks[t])
    /\ (/\ numThreads = 1
        /\ input = Rep(LongByte, LongLen)
        /\ tpc[0] \in {"finished", "joined"})
         => chunks[0] = <<LongByte, ToChar(255), LongByte, ToChar(LongLen - 255)>>

\* C9 witness: one worker has encoded the buffer of LongLen equal bytes.
C9_Witness ==
  /\ op = "compress"
  /\ numThreads = 1
  /\ Len(input) = LongLen
  /\ tpc[0] = "finished"
  /\ Len(chunks[0]) = 4

\* C10: slot ownership. Slot t is assigned only by worker t, once, when that
\* worker completes; the input buffer is never changed; and the merge runs
\* only when every worker has completed and has been joined.
C10_SlotOwnership ==
  /\ data = input
  /\ \A k \in 1..Len(writes) : writes[k][1] = writes[k][2]
  /\ \A t \in Threads :
       Cardinality({k \in 1..Len(writes) : writes[k][2] = t})
         = IF tpc[t] \in {"finished", "joined"} THEN 1 ELSE 0
  /\ (Forked /\ pc \in {"merge", "store", "done", "failed"})
       => \A t \in Threads : tpc[t] = "joined"

\* C10 witness: the merge is about to run after three or more workers
\* completed out of index order.
C10_Witness ==
  /\ Forked
  /\ pc = "merge"
  /\ numThreads >= 3
  /\ Len(writes) = numThreads
  /\ ~InIndexOrder(finishOrder)

====
